---- MODULE Spec2Model ----
(***************************************************************************)
(* Model of the trivia quiz server (app.mjs): startup load of the question *)
(* bank, the in-memory `queries` array, and the five HTTP routes.          *)
(*                                                                         *)
(* A JavaScript string is modelled as the sequence of its UTF-16 code      *)
(* units, each a number in 0..65535 (97 is "a", \h00C9 is U+00C9).  split, *)
(* trim, toLowerCase and includes are computed on these sequences.         *)
(* uuidv4() is modelled as a generator of fresh naturals.                  *)
(*                                                                         *)
(* A value that is undefined, a string or an array of strings (a request   *)
(* field, the question and genre of a stored question) is modelled as the  *)
(* sequence of its strings: <<>> is undefined, <<text>> is the string      *)
(* text, two or more texts are an array (a field the request repeats).     *)
(***************************************************************************)
EXTENDS Integers, Sequences, FiniteSets, TLC

VARIABLES seedFile, pc, server, queries, uuidCalls, adds, served, resp

vars == <<seedFile, pc, server, queries, uuidCalls, adds, served, resp>>

(* ---------------------------- bounds ----------------------------------- *)
\* Largest number of POST /questions requests handled in one run.
MaxAdds == 2
\* Largest number of POST /questions requests in the parsing specification.
MaxTextAdds == 1
\* Longest text enumerated exhaustively over BaseChars.
MaxLen == 2
\* Longest accepted-answer list enumerated for a seed entry.
MaxAnswers == 2

(* ------------------------------ strings -------------------------------- *)
\* UTF-16: a high surrogate followed by a low surrogate is one code point
IsHighSurrogate(u) == \hD800 <= u /\ u <= \hDBFF

IsLowSurrogate(u) == \hDC00 <= u /\ u <= \hDFFF

RECURSIVE CodePoints(_)
\* the code points of a string, as toLowerCase iterates over it; a
\* surrogate that is not part of a pair is a code point of its own
CodePoints(t) ==
  IF t = <<>> THEN <<>>
  ELSE IF Len(t) >= 2 /\ IsHighSurrogate(t[1]) /\ IsLowSurrogate(t[2])
  THEN <<\h10000 + (t[1] - \hD800) * 1024 + (t[2] - \hDC00)>>
       \o CodePoints(SubSeq(t, 3, Len(t)))
  ELSE <<t[1]>> \o CodePoints(Tail(t))

\* the code units of one code point
CodeUnits(cp) ==
  IF cp < \h10000 THEN <<cp>>
  ELSE <<\hD800 + ((cp - \h10000) \div 1024), \hDC00 + ((cp - \h10000) % 1024)>>

\* Lower-case mappings of the Unicode character database that do not depend
\* on context, as <<first, last, step, delta>>: the code points first,
\* first + step, ..., last each map to themselves plus delta.  The table is
\* that of Unicode 17.0; U+0130 and U+03A3 are treated apart.
LowerRanges == <<
   <<\h0041, \h005A, 1, 32>>, <<\h00C0, \h00D6, 1, 32>>, <<\h00D8, \h00DE, 1, 32>>,
   <<\h0100, \h012E, 2, 1>>, <<\h0132, \h0136, 2, 1>>, <<\h0139, \h0147, 2, 1>>,
   <<\h014A, \h0176, 2, 1>>, <<\h0178, \h0178, 1, -121>>, <<\h0179, \h017D, 2, 1>>,
   <<\h0181, \h0181, 1, 210>>, <<\h0182, \h0184, 2, 1>>, <<\h0186, \h0186, 1, 206>>,
   <<\h0187, \h0187, 1, 1>>, <<\h0189, \h018A, 1, 205>>, <<\h018B, \h018B, 1, 1>>,
   <<\h018E, \h018E, 1, 79>>, <<\h018F, \h018F, 1, 202>>, <<\h0190, \h0190, 1, 203>>,
   <<\h0191, \h0191, 1, 1>>, <<\h0193, \h0193, 1, 205>>, <<\h0194, \h0194, 1, 207>>,
   <<\h0196, \h0196, 1, 211>>, <<\h0197, \h0197, 1, 209>>, <<\h0198, \h0198, 1, 1>>,
   <<\h019C, \h019C, 1, 211>>, <<\h019D, \h019D, 1, 213>>, <<\h019F, \h019F, 1, 214>>,
   <<\h01A0, \h01A4, 2, 1>>, <<\h01A6, \h01A6, 1, 218>>, <<\h01A7, \h01A7, 1, 1>>,
   <<\h01A9, \h01A9, 1, 218>>, <<\h01AC, \h01AC, 1, 1>>, <<\h01AE, \h01AE, 1, 218>>,
   <<\h01AF, \h01AF, 1, 1>>, <<\h01B1, \h01B2, 1, 217>>, <<\h01B3, \h01B5, 2, 1>>,
   <<\h01B7, \h01B7, 1, 219>>, <<\h01B8, \h01B8, 1, 1>>, <<\h01BC, \h01BC, 1, 1>>,
   <<\h01C4, \h01C4, 1, 2>>, <<\h01C5, \h01C5, 1, 1>>, <<\h01C7, \h01C7, 1, 2>>,
   <<\h01C8, \h01C8, 1, 1>>, <<\h01CA, \h01CA, 1, 2>>, <<\h01CB, \h01DB, 2, 1>>,
   <<\h01DE, \h01EE, 2, 1>>, <<\h01F1, \h01F1, 1, 2>>, <<\h01F2, \h01F4, 2, 1>>,
   <<\h01F6, \h01F6, 1, -97>>, <<\h01F7, \h01F7, 1, -56>>, <<\h01F8, \h021E, 2, 1>>,
   <<\h0220, \h0220, 1, -130>>, <<\h0222, \h0232, 2, 1>>, <<\h023A, \h023A, 1, 10795>>,
   <<\h023B, \h023B, 1, 1>>, <<\h023D, \h023D, 1, -163>>, <<\h023E, \h023E, 1, 10792>>,
   <<\h0241, \h0241, 1, 1>>, <<\h0243, \h0243, 1, -195>>, <<\h0244, \h0244, 1, 69>>,
   <<\h0245, \h0245, 1, 71>>, <<\h0246, \h024E, 2, 1>>, <<\h0370, \h0372, 2, 1>>,
   <<\h0376, \h0376, 1, 1>>, <<\h037F, \h037F, 1, 116>>, <<\h0386, \h0386, 1, 38>>,
   <<\h0388, \h038A, 1, 37>>, <<\h038C, \h038C, 1, 64>>, <<\h038E, \h038F, 1, 63>>,
   <<\h0391, \h03A1, 1, 32>>, <<\h03A4, \h03AB, 1, 32>>, <<\h03CF, \h03CF, 1, 8>>,
   <<\h03D8, \h03EE, 2, 1>>, <<\h03F4, \h03F4, 1, -60>>, <<\h03F7, \h03F7, 1, 1>>,
   <<\h03F9, \h03F9, 1, -7>>, <<\h03FA, \h03FA, 1, 1>>, <<\h03FD, \h03FF, 1, -130>>,
   <<\h0400, \h040F, 1, 80>>, <<\h0410, \h042F, 1, 32>>, <<\h0460, \h0480, 2, 1>>,
   <<\h048A, \h04BE, 2, 1>>, <<\h04C0, \h04C0, 1, 15>>, <<\h04C1, \h04CD, 2, 1>>,
   <<\h04D0, \h052E, 2, 1>>, <<\h0531, \h0556, 1, 48>>, <<\h10A0, \h10C5, 1, 7264>>,
   <<\h10C7, \h10C7, 1, 7264>>, <<\h10CD, \h10CD, 1, 7264>>, <<\h13A0, \h13EF, 1, 38864>>,
   <<\h13F0, \h13F5, 1, 8>>, <<\h1C89, \h1C89, 1, 1>>, <<\h1C90, \h1CBA, 1, -3008>>,
   <<\h1CBD, \h1CBF, 1, -3008>>, <<\h1E00, \h1E94, 2, 1>>, <<\h1E9E, \h1E9E, 1, -7615>>,
   <<\h1EA0, \h1EFE, 2, 1>>, <<\h1F08, \h1F0F, 1, -8>>, <<\h1F18, \h1F1D, 1, -8>>,
   <<\h1F28, \h1F2F, 1, -8>>, <<\h1F38, \h1F3F, 1, -8>>, <<\h1F48, \h1F4D, 1, -8>>,
   <<\h1F59, \h1F5F, 2, -8>>, <<\h1F68, \h1F6F, 1, -8>>, <<\h1F88, \h1F8F, 1, -8>>,
   <<\h1F98, \h1F9F, 1, -8>>, <<\h1FA8, \h1FAF, 1, -8>>, <<\h1FB8, \h1FB9, 1, -8>>,
   <<\h1FBA, \h1FBB, 1, -74>>, <<\h1FBC, \h1FBC, 1, -9>>, <<\h1FC8, \h1FCB, 1, -86>>,
   <<\h1FCC, \h1FCC, 1, -9>>, <<\h1FD8, \h1FD9, 1, -8>>, <<\h1FDA, \h1FDB, 1, -100>>,
   <<\h1FE8, \h1FE9, 1, -8>>, <<\h1FEA, \h1FEB, 1, -112>>, <<\h1FEC, \h1FEC, 1, -7>>,
   <<\h1FF8, \h1FF9, 1, -128>>, <<\h1FFA, \h1FFB, 1, -126>>, <<\h1FFC, \h1FFC, 1, -9>>,
   <<\h2126, \h2126, 1, -7517>>, <<\h212A, \h212A, 1, -8383>>, <<\h212B, \h212B, 1, -8262>>,
   <<\h2132, \h2132, 1, 28>>, <<\h2160, \h216F, 1, 16>>, <<\h2183, \h2183, 1, 1>>,
   <<\h24B6, \h24CF, 1, 26>>, <<\h2C00, \h2C2F, 1, 48>>, <<\h2C60, \h2C60, 1, 1>>,
   <<\h2C62, \h2C62, 1, -10743>>, <<\h2C63, \h2C63, 1, -3814>>, <<\h2C64, \h2C64, 1, -10727>>,
   <<\h2C67, \h2C6B, 2, 1>>, <<\h2C6D, \h2C6D, 1, -10780>>, <<\h2C6E, \h2C6E, 1, -10749>>,
   <<\h2C6F, \h2C6F, 1, -10783>>, <<\h2C70, \h2C70, 1, -10782>>, <<\h2C72, \h2C72, 1, 1>>,
   <<\h2C75, \h2C75, 1, 1>>, <<\h2C7E, \h2C7F, 1, -10815>>, <<\h2C80, \h2CE2, 2, 1>>,
   <<\h2CEB, \h2CED, 2, 1>>, <<\h2CF2, \h2CF2, 1, 1>>, <<\hA640, \hA66C, 2, 1>>,
   <<\hA680, \hA69A, 2, 1>>, <<\hA722, \hA72E, 2, 1>>, <<\hA732, \hA76E, 2, 1>>,
   <<\hA779, \hA77B, 2, 1>>, <<\hA77D, \hA77D, 1, -35332>>, <<\hA77E, \hA786, 2, 1>>,
   <<\hA78B, \hA78B, 1, 1>>, <<\hA78D, \hA78D, 1, -42280>>, <<\hA790, \hA792, 2, 1>>,
   <<\hA796, \hA7A8, 2, 1>>, <<\hA7AA, \hA7AA, 1, -42308>>, <<\hA7AB, \hA7AB, 1, -42319>>,
   <<\hA7AC, \hA7AC, 1, -42315>>, <<\hA7AD, \hA7AD, 1, -42305>>, <<\hA7AE, \hA7AE, 1, -42308>>,
   <<\hA7B0, \hA7B0, 1, -42258>>, <<\hA7B1, \hA7B1, 1, -42282>>, <<\hA7B2, \hA7B2, 1, -42261>>,
   <<\hA7B3, \hA7B3, 1, 928>>, <<\hA7B4, \hA7C2, 2, 1>>, <<\hA7C4, \hA7C4, 1, -48>>,
   <<\hA7C5, \hA7C5, 1, -42307>>, <<\hA7C6, \hA7C6, 1, -35384>>, <<\hA7C7, \hA7C9, 2, 1>>,
   <<\hA7CB, \hA7CB, 1, -42343>>, <<\hA7CC, \hA7DA, 2, 1>>, <<\hA7DC, \hA7DC, 1, -42561>>,
   <<\hA7F5, \hA7F5, 1, 1>>, <<\hFF21, \hFF3A, 1, 32>>, <<\h10400, \h10427, 1, 40>>,
   <<\h104B0, \h104D3, 1, 40>>, <<\h10570, \h1057A, 1, 39>>, <<\h1057C, \h1058A, 1, 39>>,
   <<\h1058C, \h10592, 1, 39>>, <<\h10594, \h10595, 1, 39>>, <<\h10C80, \h10CB2, 1, 64>>,
   <<\h10D50, \h10D65, 1, 32>>, <<\h118A0, \h118BF, 1, 32>>, <<\h16E40, \h16E5F, 1, 32>>,
   <<\h16EA0, \h16EB8, 1, 27>>, <<\h1E900, \h1E921, 1, 34>> >>

\* the code points of one entry of LowerRanges
RangePoints(r) == {r[1] + r[3] * k : k \in 0..((r[2] - r[1]) \div r[3])}

\* the code points LowerRanges maps
Upper == UNION {RangePoints(LowerRanges[i]) : i \in 1..Len(LowerRanges)}

\* the lower-case code point of every code point of Upper
LowerOf ==
  [c \in Upper |->
     c + LowerRanges[CHOOSE i \in 1..Len(LowerRanges) :
                       c \in RangePoints(LowerRanges[i])][4]]

\* Code points with the property Cased and without Case_Ignorable of
\* Unicode 17.0, as <<first, last>>
CasedRanges == <<
   <<\h0041, \h005A>>, <<\h0061, \h007A>>, <<\h00AA, \h00AA>>, <<\h00B5, \h00B5>>,
   <<\h00BA, \h00BA>>, <<\h00C0, \h00D6>>, <<\h00D8, \h00F6>>, <<\h00F8, \h01BA>>,
   <<\h01BC, \h01BF>>, <<\h01C4, \h0293>>, <<\h0296, \h02AF>>, <<\h0370, \h0373>>,
   <<\h0376, \h0377>>, <<\h037B, \h037D>>, <<\h037F, \h037F>>, <<\h0386, \h0386>>,
   <<\h0388, \h038A>>, <<\h038C, \h038C>>, <<\h038E, \h03A1>>, <<\h03A3, \h03F5>>,
   <<\h03F7, \h0481>>, <<\h048A, \h052F>>, <<\h0531, \h0556>>, <<\h0560, \h0588>>,
   <<\h10A0, \h10C5>>, <<\h10C7, \h10C7>>, <<\h10CD, \h10CD>>, <<\h10D0, \h10FA>>,
   <<\h10FD, \h10FF>>, <<\h13A0, \h13F5>>, <<\h13F8, \h13FD>>, <<\h1C80, \h1C8A>>,
   <<\h1C90, \h1CBA>>, <<\h1CBD, \h1CBF>>, <<\h1D00, \h1D2B>>, <<\h1D6B, \h1D77>>,
   <<\h1D79, \h1D9A>>, <<\h1E00, \h1F15>>, <<\h1F18, \h1F1D>>, <<\h1F20, \h1F45>>,
   <<\h1F48, \h1F4D>>, <<\h1F50, \h1F57>>, <<\h1F59, \h1F59>>, <<\h1F5B, \h1F5B>>,
   <<\h1F5D, \h1F5D>>, <<\h1F5F, \h1F7D>>, <<\h1F80, \h1FB4>>, <<\h1FB6, \h1FBC>>,
   <<\h1FBE, \h1FBE>>, <<\h1FC2, \h1FC4>>, <<\h1FC6, \h1FCC>>, <<\h1FD0, \h1FD3>>,
   <<\h1FD6, \h1FDB>>, <<\h1FE0, \h1FEC>>, <<\h1FF2, \h1FF4>>, <<\h1FF6, \h1FFC>>,
   <<\h2102, \h2102>>, <<\h2107, \h2107>>, <<\h210A, \h2113>>, <<\h2115, \h2115>>,
   <<\h2119, \h211D>>, <<\h2124, \h2124>>, <<\h2126, \h2126>>, <<\h2128, \h2128>>,
   <<\h212A, \h212D>>, <<\h212F, \h2134>>, <<\h2139, \h2139>>, <<\h213C, \h213F>>,
   <<\h2145, \h2149>>, <<\h214E, \h214E>>, <<\h2160, \h217F>>, <<\h2183, \h2184>>,
   <<\h24B6, \h24E9>>, <<\h2C00, \h2C7B>>, <<\h2C7E, \h2CE4>>, <<\h2CEB, \h2CEE>>,
   <<\h2CF2, \h2CF3>>, <<\h2D00, \h2D25>>, <<\h2D27, \h2D27>>, <<\h2D2D, \h2D2D>>,
   <<\hA640, \hA66D>>, <<\hA680, \hA69B>>, <<\hA722, \hA76F>>, <<\hA771, \hA787>>,
   <<\hA78B, \hA78E>>, <<\hA790, \hA7DC>>, <<\hA7F5, \hA7F6>>, <<\hA7FA, \hA7FA>>,
   <<\hAB30, \hAB5A>>, <<\hAB60, \hAB68>>, <<\hAB70, \hABBF>>, <<\hFB00, \hFB06>>,
   <<\hFB13, \hFB17>>, <<\hFF21, \hFF3A>>, <<\hFF41, \hFF5A>>, <<\h10400, \h1044F>>,
   <<\h104B0, \h104D3>>, <<\h104D8, \h104FB>>, <<\h10570, \h1057A>>, <<\h1057C, \h1058A>>,
   <<\h1058C, \h10592>>, <<\h10594, \h10595>>, <<\h10597, \h105A1>>, <<\h105A3, \h105B1>>,
   <<\h105B3, \h105B9>>, <<\h105BB, \h105BC>>, <<\h10C80, \h10CB2>>, <<\h10CC0, \h10CF2>>,
   <<\h10D50, \h10D65>>, <<\h10D70, \h10D85>>, <<\h118A0, \h118DF>>, <<\h16E40, \h16E7F>>,
   <<\h16EA0, \h16EB8>>, <<\h16EBB, \h16ED3>>, <<\h1D400, \h1D454>>, <<\h1D456, \h1D49C>>,
   <<\h1D49E, \h1D49F>>, <<\h1D4A2, \h1D4A2>>, <<\h1D4A5, \h1D4A6>>, <<\h1D4A9, \h1D4AC>>,
   <<\h1D4AE, \h1D4B9>>, <<\h1D4BB, \h1D4BB>>, <<\h1D4BD, \h1D4C3>>, <<\h1D4C5, \h1D505>>,
   <<\h1D507, \h1D50A>>, <<\h1D50D, \h1D514>>, <<\h1D516, \h1D51C>>, <<\h1D51E, \h1D539>>,
   <<\h1D53B, \h1D53E>>, <<\h1D540, \h1D544>>, <<\h1D546, \h1D546>>, <<\h1D54A, \h1D550>>,
   <<\h1D552, \h1D6A5>>, <<\h1D6A8, \h1D6C0>>, <<\h1D6C2, \h1D6DA>>, <<\h1D6DC, \h1D6FA>>,
   <<\h1D6FC, \h1D714>>, <<\h1D716, \h1D734>>, <<\h1D736, \h1D74E>>, <<\h1D750, \h1D76E>>,
   <<\h1D770, \h1D788>>, <<\h1D78A, \h1D7A8>>, <<\h1D7AA, \h1D7C2>>, <<\h1D7C4, \h1D7CB>>,
   <<\h1DF00, \h1DF09>>, <<\h1DF0B, \h1DF1E>>, <<\h1DF25, \h1DF2A>>, <<\h1E900, \h1E943>>,
   <<\h1F130, \h1F149>>, <<\h1F150, \h1F169>>, <<\h1F170, \h1F189>> >>

\* Code points with the property Case_Ignorable of Unicode 17.0, as
\* <<first, last>>
CaseIgnorableRanges == <<
   <<\h0027, \h0027>>, <<\h002E, \h002E>>, <<\h003A, \h003A>>, <<\h005E, \h005E>>,
   <<\h0060, \h0060>>, <<\h00A8, \h00A8>>, <<\h00AD, \h00AD>>, <<\h00AF, \h00AF>>,
   <<\h00B4, \h00B4>>, <<\h00B7, \h00B8>>, <<\h02B0, \h036F>>, <<\h0374, \h0375>>,
   <<\h037A, \h037A>>, <<\h0384, \h0385>>, <<\h0387, \h0387>>, <<\h0483, \h0489>>,
   <<\h0559, \h0559>>, <<\h055F, \h055F>>, <<\h0591, \h05BD>>, <<\h05BF, \h05BF>>,
   <<\h05C1, \h05C2>>, <<\h05C4, \h05C5>>, <<\h05C7, \h05C7>>, <<\h05F4, \h05F4>>,
   <<\h0600, \h0605>>, <<\h0610, \h061A>>, <<\h061C, \h061C>>, <<\h0640, \h0640>>,
   <<\h064B, \h065F>>, <<\h0670, \h0670>>, <<\h06D6, \h06DD>>, <<\h06DF, \h06E8>>,
   <<\h06EA, \h06ED>>, <<\h070F, \h070F>>, <<\h0711, \h0711>>, <<\h0730, \h074A>>,
   <<\h07A6, \h07B0>>, <<\h07EB, \h07F5>>, <<\h07FA, \h07FA>>, <<\h07FD, \h07FD>>,
   <<\h0816, \h082D>>, <<\h0859, \h085B>>, <<\h0888, \h0888>>, <<\h0890, \h0891>>,
   <<\h0897, \h089F>>, <<\h08C9, \h0902>>, <<\h093A, \h093A>>, <<\h093C, \h093C>>,
   <<\h0941, \h0948>>, <<\h094D, \h094D>>, <<\h0951, \h0957>>, <<\h0962, \h0963>>,
   <<\h0971, \h0971>>, <<\h0981, \h0981>>, <<\h09BC, \h09BC>>, <<\h09C1, \h09C4>>,
   <<\h09CD, \h09CD>>, <<\h09E2, \h09E3>>, <<\h09FE, \h09FE>>, <<\h0A01, \h0A02>>,
   <<\h0A3C, \h0A3C>>, <<\h0A41, \h0A42>>, <<\h0A47, \h0A48>>, <<\h0A4B, \h0A4D>>,
   <<\h0A51, \h0A51>>, <<\h0A70, \h0A71>>, <<\h0A75, \h0A75>>, <<\h0A81, \h0A82>>,
   <<\h0ABC, \h0ABC>>, <<\h0AC1, \h0AC5>>, <<\h0AC7, \h0AC8>>, <<\h0ACD, \h0ACD>>,
   <<\h0AE2, \h0AE3>>, <<\h0AFA, \h0AFF>>, <<\h0B01, \h0B01>>, <<\h0B3C, \h0B3C>>,
   <<\h0B3F, \h0B3F>>, <<\h0B41, \h0B44>>, <<\h0B4D, \h0B4D>>, <<\h0B55, \h0B56>>,
   <<\h0B62, \h0B63>>, <<\h0B82, \h0B82>>, <<\h0BC0, \h0BC0>>, <<\h0BCD, \h0BCD>>,
   <<\h0C00, \h0C00>>, <<\h0C04, \h0C04>>, <<\h0C3C, \h0C3C>>, <<\h0C3E, \h0C40>>,
   <<\h0C46, \h0C48>>, <<\h0C4A, \h0C4D>>, <<\h0C55, \h0C56>>, <<\h0C62, \h0C63>>,
   <<\h0C81, \h0C81>>, <<\h0CBC, \h0CBC>>, <<\h0CBF, \h0CBF>>, <<\h0CC6, \h0CC6>>,
   <<\h0CCC, \h0CCD>>, <<\h0CE2, \h0CE3>>, <<\h0D00, \h0D01>>, <<\h0D3B, \h0D3C>>,
   <<\h0D41, \h0D44>>, <<\h0D4D, \h0D4D>>, <<\h0D62, \h0D63>>, <<\h0D81, \h0D81>>,
   <<\h0DCA, \h0DCA>>, <<\h0DD2, \h0DD4>>, <<\h0DD6, \h0DD6>>, <<\h0E31, \h0E31>>,
   <<\h0E34, \h0E3A>>, <<\h0E46, \h0E4E>>, <<\h0EB1, \h0EB1>>, <<\h0EB4, \h0EBC>>,
   <<\h0EC6, \h0EC6>>, <<\h0EC8, \h0ECE>>, <<\h0F18, \h0F19>>, <<\h0F35, \h0F35>>,
   <<\h0F37, \h0F37>>, <<\h0F39, \h0F39>>, <<\h0F71, \h0F7E>>, <<\h0F80, \h0F84>>,
   <<\h0F86, \h0F87>>, <<\h0F8D, \h0F97>>, <<\h0F99, \h0FBC>>, <<\h0FC6, \h0FC6>>,
   <<\h102D, \h1030>>, <<\h1032, \h1037>>, <<\h1039, \h103A>>, <<\h103D, \h103E>>,
   <<\h1058, \h1059>>, <<\h105E, \h1060>>, <<\h1071, \h1074>>, <<\h1082, \h1082>>,
   <<\h1085, \h1086>>, <<\h108D, \h108D>>, <<\h109D, \h109D>>, <<\h10FC, \h10FC>>,
   <<\h135D, \h135F>>, <<\h1712, \h1714>>, <<\h1732, \h1733>>, <<\h1752, \h1753>>,
   <<\h1772, \h1773>>, <<\h17B4, \h17B5>>, <<\h17B7, \h17BD>>, <<\h17C6, \h17C6>>,
   <<\h17C9, \h17D3>>, <<\h17D7, \h17D7>>, <<\h17DD, \h17DD>>, <<\h180B, \h180F>>,
   <<\h1843, \h1843>>, <<\h1885, \h1886>>, <<\h18A9, \h18A9>>, <<\h1920, \h1922>>,
   <<\h1927, \h1928>>, <<\h1932, \h1932>>, <<\h1939, \h193B>>, <<\h1A17, \h1A18>>,
   <<\h1A1B, \h1A1B>>, <<\h1A56, \h1A56>>, <<\h1A58, \h1A5E>>, <<\h1A60, \h1A60>>,
   <<\h1A62, \h1A62>>, <<\h1A65, \h1A6C>>, <<\h1A73, \h1A7C>>, <<\h1A7F, \h1A7F>>,
   <<\h1AA7, \h1AA7>>, <<\h1AB0, \h1ADD>>, <<\h1AE0, \h1AEB>>, <<\h1B00, \h1B03>>,
   <<\h1B34, \h1B34>>, <<\h1B36, \h1B3A>>, <<\h1B3C, \h1B3C>>, <<\h1B42, \h1B42>>,
   <<\h1B6B, \h1B73>>, <<\h1B80, \h1B81>>, <<\h1BA2, \h1BA5>>, <<\h1BA8, \h1BA9>>,
   <<\h1BAB, \h1BAD>>, <<\h1BE6, \h1BE6>>, <<\h1BE8, \h1BE9>>, <<\h1BED, \h1BED>>,
   <<\h1BEF, \h1BF1>>, <<\h1C2C, \h1C33>>, <<\h1C36, \h1C37>>, <<\h1C78, \h1C7D>>,
   <<\h1CD0, \h1CD2>>, <<\h1CD4, \h1CE0>>, <<\h1CE2, \h1CE8>>, <<\h1CED, \h1CED>>,
   <<\h1CF4, \h1CF4>>, <<\h1CF8, \h1CF9>>, <<\h1D2C, \h1D6A>>, <<\h1D78, \h1D78>>,
   <<\h1D9B, \h1DFF>>, <<\h1FBD, \h1FBD>>, <<\h1FBF, \h1FC1>>, <<\h1FCD, \h1FCF>>,
   <<\h1FDD, \h1FDF>>, <<\h1FED, \h1FEF>>, <<\h1FFD, \h1FFE>>, <<\h200B, \h200F>>,
   <<\h2018, \h2019>>, <<\h2024, \h2024>>, <<\h2027, \h2027>>, <<\h202A, \h202E>>,
   <<\h2060, \h2064>>, <<\h2066, \h206F>>, <<\h2071, \h2071>>, <<\h207F, \h207F>>,
   <<\h2090, \h209C>>, <<\h20D0, \h20F0>>, <<\h2C7C, \h2C7D>>, <<\h2CEF, \h2CF1>>,
   <<\h2D6F, \h2D6F>>, <<\h2D7F, \h2D7F>>, <<\h2DE0, \h2DFF>>, <<\h2E2F, \h2E2F>>,
   <<\h3005, \h3005>>, <<\h302A, \h302D>>, <<\h3031, \h3035>>, <<\h303B, \h303B>>,
   <<\h3099, \h309E>>, <<\h30FC, \h30FE>>, <<\hA015, \hA015>>, <<\hA4F8, \hA4FD>>,
   <<\hA60C, \hA60C>>, <<\hA66F, \hA672>>, <<\hA674, \hA67D>>, <<\hA67F, \hA67F>>,
   <<\hA69C, \hA69F>>, <<\hA6F0, \hA6F1>>, <<\hA700, \hA721>>, <<\hA770, \hA770>>,
   <<\hA788, \hA78A>>, <<\hA7F1, \hA7F4>>, <<\hA7F8, \hA7F9>>, <<\hA802, \hA802>>,
   <<\hA806, \hA806>>, <<\hA80B, \hA80B>>, <<\hA825, \hA826>>, <<\hA82C, \hA82C>>,
   <<\hA8C4, \hA8C5>>, <<\hA8E0, \hA8F1>>, <<\hA8FF, \hA8FF>>, <<\hA926, \hA92D>>,
   <<\hA947, \hA951>>, <<\hA980, \hA982>>, <<\hA9B3, \hA9B3>>, <<\hA9B6, \hA9B9>>,
   <<\hA9BC, \hA9BD>>, <<\hA9CF, \hA9CF>>, <<\hA9E5, \hA9E6>>, <<\hAA29, \hAA2E>>,
   <<\hAA31, \hAA32>>, <<\hAA35, \hAA36>>, <<\hAA43, \hAA43>>, <<\hAA4C, \hAA4C>>,
   <<\hAA70, \hAA70>>, <<\hAA7C, \hAA7C>>, <<\hAAB0, \hAAB0>>, <<\hAAB2, \hAAB4>>,
   <<\hAAB7, \hAAB8>>, <<\hAABE, \hAABF>>, <<\hAAC1, \hAAC1>>, <<\hAADD, \hAADD>>,
   <<\hAAEC, \hAAED>>, <<\hAAF3, \hAAF4>>, <<\hAAF6, \hAAF6>>, <<\hAB5B, \hAB5F>>,
   <<\hAB69, \hAB6B>>, <<\hABE5, \hABE5>>, <<\hABE8, \hABE8>>, <<\hABED, \hABED>>,
   <<\hFB1E, \hFB1E>>, <<\hFBB2, \hFBC2>>, <<\hFE00, \hFE0F>>, <<\hFE13, \hFE13>>,
   <<\hFE20, \hFE2F>>, <<\hFE52, \hFE52>>, <<\hFE55, \hFE55>>, <<\hFEFF, \hFEFF>>,
   <<\hFF07, \hFF07>>, <<\hFF0E, \hFF0E>>, <<\hFF1A, \hFF1A>>, <<\hFF3E, \hFF3E>>,
   <<\hFF40, \hFF40>>, <<\hFF70, \hFF70>>, <<\hFF9E, \hFF9F>>, <<\hFFE3, \hFFE3>>,
   <<\hFFF9, \hFFFB>>, <<\h101FD, \h101FD>>, <<\h102E0, \h102E0>>, <<\h10376, \h1037A>>,
   <<\h10780, \h10785>>, <<\h10787, \h107B0>>, <<\h107B2, \h107BA>>, <<\h10A01, \h10A03>>,
   <<\h10A05, \h10A06>>, <<\h10A0C, \h10A0F>>, <<\h10A38, \h10A3A>>, <<\h10A3F, \h10A3F>>,
   <<\h10AE5, \h10AE6>>, <<\h10D24, \h10D27>>, <<\h10D4E, \h10D4E>>, <<\h10D69, \h10D6D>>,
   <<\h10D6F, \h10D6F>>, <<\h10EAB, \h10EAC>>, <<\h10EC5, \h10EC5>>, <<\h10EFA, \h10EFF>>,
   <<\h10F46, \h10F50>>, <<\h10F82, \h10F85>>, <<\h11001, \h11001>>, <<\h11038, \h11046>>,
   <<\h11070, \h11070>>, <<\h11073, \h11074>>, <<\h1107F, \h11081>>, <<\h110B3, \h110B6>>,
   <<\h110B9, \h110BA>>, <<\h110BD, \h110BD>>, <<\h110C2, \h110C2>>, <<\h110CD, \h110CD>>,
   <<\h11100, \h11102>>, <<\h11127, \h1112B>>, <<\h1112D, \h11134>>, <<\h11173, \h11173>>,
   <<\h11180, \h11181>>, <<\h111B6, \h111BE>>, <<\h111C9, \h111CC>>, <<\h111CF, \h111CF>>,
   <<\h1122F, \h11231>>, <<\h11234, \h11234>>, <<\h11236, \h11237>>, <<\h1123E, \h1123E>>,
   <<\h11241, \h11241>>, <<\h112DF, \h112DF>>, <<\h112E3, \h112EA>>, <<\h11300, \h11301>>,
   <<\h1133B, \h1133C>>, <<\h11340, \h11340>>, <<\h11366, \h1136C>>, <<\h11370, \h11374>>,
   <<\h113BB, \h113C0>>, <<\h113CE, \h113CE>>, <<\h113D0, \h113D0>>, <<\h113D2, \h113D2>>,
   <<\h113E1, \h113E2>>, <<\h11438, \h1143F>>, <<\h11442, \h11444>>, <<\h11446, \h11446>>,
   <<\h1145E, \h1145E>>, <<\h114B3, \h114B8>>, <<\h114BA, \h114BA>>, <<\h114BF, \h114C0>>,
   <<\h114C2, \h114C3>>, <<\h115B2, \h115B5>>, <<\h115BC, \h115BD>>, <<\h115BF, \h115C0>>,
   <<\h115DC, \h115DD>>, <<\h11633, \h1163A>>, <<\h1163D, \h1163D>>, <<\h1163F, \h11640>>,
   <<\h116AB, \h116AB>>, <<\h116AD, \h116AD>>, <<\h116B0, \h116B5>>, <<\h116B7, \h116B7>>,
   <<\h1171D, \h1171D>>, <<\h1171F, \h1171F>>, <<\h11722, \h11725>>, <<\h11727, \h1172B>>,
   <<\h1182F, \h11837>>, <<\h11839, \h1183A>>, <<\h1193B, \h1193C>>, <<\h1193E, \h1193E>>,
   <<\h11943, \h11943>>, <<\h119D4, \h119D7>>, <<\h119DA, \h119DB>>, <<\h119E0, \h119E0>>,
   <<\h11A01, \h11A0A>>, <<\h11A33, \h11A38>>, <<\h11A3B, \h11A3E>>, <<\h11A47, \h11A47>>,
   <<\h11A51, \h11A56>>, <<\h11A59, \h11A5B>>, <<\h11A8A, \h11A96>>, <<\h11A98, \h11A99>>,
   <<\h11B60, \h11B60>>, <<\h11B62, \h11B64>>, <<\h11B66, \h11B66>>, <<\h11C30, \h11C36>>,
   <<\h11C38, \h11C3D>>, <<\h11C3F, \h11C3F>>, <<\h11C92, \h11CA7>>, <<\h11CAA, \h11CB0>>,
   <<\h11CB2, \h11CB3>>, <<\h11CB5, \h11CB6>>, <<\h11D31, \h11D36>>, <<\h11D3A, \h11D3A>>,
   <<\h11D3C, \h11D3D>>, <<\h11D3F, \h11D45>>, <<\h11D47, \h11D47>>, <<\h11D90, \h11D91>>,
   <<\h11D95, \h11D95>>, <<\h11D97, \h11D97>>, <<\h11DD9, \h11DD9>>, <<\h11EF3, \h11EF4>>,
   <<\h11F00, \h11F01>>, <<\h11F36, \h11F3A>>, <<\h11F40, \h11F40>>, <<\h11F42, \h11F42>>,
   <<\h11F5A, \h11F5A>>, <<\h13430, \h13440>>, <<\h13447, \h13455>>, <<\h1611E, \h16129>>,
   <<\h1612D, \h1612F>>, <<\h16AF0, \h16AF4>>, <<\h16B30, \h16B36>>, <<\h16B40, \h16B43>>,
   <<\h16D40, \h16D42>>, <<\h16D6B, \h16D6C>>, <<\h16F4F, \h16F4F>>, <<\h16F8F, \h16F9F>>,
   <<\h16FE0, \h16FE1>>, <<\h16FE3, \h16FE4>>, <<\h16FF2, \h16FF3>>, <<\h1AFF0, \h1AFF3>>,
   <<\h1AFF5, \h1AFFB>>, <<\h1AFFD, \h1AFFE>>, <<\h1BC9D, \h1BC9E>>, <<\h1BCA0, \h1BCA3>>,
   <<\h1CF00, \h1CF2D>>, <<\h1CF30, \h1CF46>>, <<\h1D167, \h1D169>>, <<\h1D173, \h1D182>>,
   <<\h1D185, \h1D18B>>, <<\h1D1AA, \h1D1AD>>, <<\h1D242, \h1D244>>, <<\h1DA00, \h1DA36>>,
   <<\h1DA3B, \h1DA6C>>, <<\h1DA75, \h1DA75>>, <<\h1DA84, \h1DA84>>, <<\h1DA9B, \h1DA9F>>,
   <<\h1DAA1, \h1DAAF>>, <<\h1E000, \h1E006>>, <<\h1E008, \h1E018>>, <<\h1E01B, \h1E021>>,
   <<\h1E023, \h1E024>>, <<\h1E026, \h1E02A>>, <<\h1E030, \h1E06D>>, <<\h1E08F, \h1E08F>>,
   <<\h1E130, \h1E13D>>, <<\h1E2AE, \h1E2AE>>, <<\h1E2EC, \h1E2EF>>, <<\h1E4EB, \h1E4EF>>,
   <<\h1E5EE, \h1E5EF>>, <<\h1E6E3, \h1E6E3>>, <<\h1E6E6, \h1E6E6>>, <<\h1E6EE, \h1E6EF>>,
   <<\h1E6F5, \h1E6F5>>, <<\h1E6FF, \h1E6FF>>, <<\h1E8D0, \h1E8D6>>, <<\h1E944, \h1E94B>>,
   <<\h1F3FB, \h1F3FF>>, <<\hE0001, \hE0001>>, <<\hE0020, \hE007F>>, <<\hE0100, \hE01EF>> >>

InRanges(c, ranges) ==
  \E i \in 1..Len(ranges) : ranges[i][1] <= c /\ c <= ranges[i][2]

RECURSIVE CasedBefore(_, _)
\* cps[1..i] ends with a cased letter and then case-ignorable code points
CasedBefore(cps, i) ==
  IF i = 0 THEN FALSE
  ELSE IF InRanges(cps[i], CaseIgnorableRanges) THEN CasedBefore(cps, i - 1)
  ELSE InRanges(cps[i], CasedRanges)

RECURSIVE CasedAfter(_, _)
\* cps[i..] starts with case-ignorable code points and then a cased letter
CasedAfter(cps, i) ==
  IF i > Len(cps) THEN FALSE
  ELSE IF InRanges(cps[i], CaseIgnorableRanges) THEN CasedAfter(cps, i + 1)
  ELSE InRanges(cps[i], CasedRanges)

\* String.prototype.toLowerCase on the i-th code point: the code points it
\* becomes.  U+0130 becomes "i" and U+0307; capital sigma becomes the final
\* sigma U+03C2 after a cased letter when no cased letter follows, and the
\* small sigma U+03C3 otherwise.
ToLowerChar(cps, i) ==
  LET c == cps[i]
  IN  IF c = \h03A3
      THEN IF CasedBefore(cps, i - 1) /\ ~CasedAfter(cps, i + 1)
           THEN <<\h03C2>> ELSE <<\h03C3>>
      ELSE IF c = \h0130 THEN <<\h0069, \h0307>>
      ELSE IF c \in Upper THEN <<LowerOf[c]>>
      ELSE <<c>>

RECURSIVE Encode(_)
\* the string of a sequence of code points
Encode(cps) ==
  IF cps = <<>> THEN <<>> ELSE CodeUnits(Head(cps)) \o Encode(Tail(cps))

RECURSIVE LowerFrom(_, _)
LowerFrom(cps, i) ==
  IF i > Len(cps) THEN <<>>
  ELSE Encode(ToLowerChar(cps, i)) \o LowerFrom(cps, i + 1)

\* String.prototype.toLowerCase
toLowerCase(t) == LowerFrom(CodePoints(t), 1)

\* white space and line terminators as String.prototype.trim sees them:
\* TAB, LF, VT, FF, CR, SP, NBSP, U+1680, U+2000..U+200A, U+2028, U+2029,
\* U+202F, U+205F, U+3000, U+FEFF
IsSpace(c) ==
  \/ c \in {9, 10, 11, 12, 13, 32, \h00A0, \h1680, \h2028, \h2029, \h202F,
            \h205F, \h3000, \hFEFF}
  \/ \h2000 <= c /\ c <= \h200A

RECURSIVE TrimStart(_)
TrimStart(t) ==
  IF t = <<>> THEN <<>>
  ELSE IF IsSpace(Head(t)) THEN TrimStart(Tail(t)) ELSE t

RECURSIVE TrimEnd(_)
TrimEnd(t) ==
  IF t = <<>> THEN <<>>
  ELSE IF IsSpace(t[Len(t)]) THEN TrimEnd(SubSeq(t, 1, Len(t) - 1)) ELSE t

\* String.prototype.trim
trim(t) == TrimEnd(TrimStart(t))

RECURSIVE SplitFrom(_, _, _)
SplitFrom(t, i, cur) ==
  IF i > Len(t) THEN <<cur>>
  ELSE IF t[i] = 44 THEN <<cur>> \o SplitFrom(t, i + 1, <<>>)
  ELSE SplitFrom(t, i + 1, Append(cur, t[i]))

\* String.prototype.split(",")
split(t) == SplitFrom(t, 1, <<>>)

NonEmpty(a) == Len(a) > 0

\* .split(",").map(a => a.trim()) without the filter
ParseAnswers_NoFilter(text) ==
  LET pieces == split(text) IN [i \in 1..Len(pieces) |-> trim(pieces[i])]

\* .split(",").map(a => a.trim()).filter(a => a.length > 0)
ParseAnswers(text) ==
  LET pieces == split(text)
      trimmed == [i \in 1..Len(pieces) |-> trim(pieces[i])]
  IN  SelectSeq(trimmed, NonEmpty)

RECURSIVE StartsWithAt(_, _, _)
StartsWithAt(hay, needle, k) ==
  IF needle = <<>> THEN TRUE
  ELSE IF k > Len(hay) THEN FALSE
  ELSE hay[k] = Head(needle) /\ StartsWithAt(hay, Tail(needle), k + 1)

RECURSIVE IncludesFrom(_, _, _)
IncludesFrom(hay, needle, k) ==
  IF k + Len(needle) - 1 > Len(hay) THEN FALSE
  ELSE StartsWithAt(hay, needle, k) \/ IncludesFrom(hay, needle, k + 1)

\* String.prototype.includes
includes(hay, needle) == IncludesFrom(hay, needle, 1)

RECURSIVE join(_, _)
\* Array.prototype.join
join(list, sep) ==
  IF list = <<>> THEN <<>>
  ELSE IF Len(list) = 1 THEN list[1]
  ELSE list[1] \o sep \o join(Tail(list), sep)

(* ------------------------------ decorate -------------------------------- *)
\* <span class="correct-answer">
SpanCorrect ==
  <<60, 115, 112, 97, 110, 32, 99, 108, 97, 115, 115, 61, 34,
    99, 111, 114, 114, 101, 99, 116, 45, 97, 110, 115, 119, 101, 114, 34, 62>>
\* <span class="incorrect-answer">
SpanIncorrect ==
  <<60, 115, 112, 97, 110, 32, 99, 108, 97, 115, 115, 61, 34,
    105, 110, 99, 111, 114, 114, 101, 99, 116, 45, 97, 110, 115, 119, 101, 114, 34, 62>>
\* </span>
SpanEnd == <<60, 47, 115, 112, 97, 110, 62>>

\* the two template literals of decorate
decorate(answer, correct) ==
  IF correct THEN SpanCorrect \o answer \o SpanEnd
  ELSE SpanIncorrect \o answer \o SpanEnd

(* ------------------------------- Query ---------------------------------- *)
\* new Query(id, question, genre, answers): the record the handlers read
\* back through q.id, q.question, q.genre and q.answers.
Query(id, question, genre, answers) ==
  [id |-> id, question |-> question, genre |-> genre, answers |-> answers]

\* uuidv4(): the (calls+1)-th call returns a value no earlier call returned
uuidv4(calls) == calls + 1

(* ------------------------------- grader --------------------------------- *)
\* quizQuestion.answers.some(c => c.toLowerCase() === ans.toLowerCase())
isCorrect(answers, ans) ==
  \E i \in 1..Len(answers) : toLowerCase(answers[i]) = toLowerCase(ans)

RECURSIVE CorrectCount(_, _)
\* correctCount after the userAnswers.map loop
CorrectCount(answers, userAnswers) ==
  IF userAnswers = <<>> THEN 0
  ELSE (IF isCorrect(answers, Head(userAnswers)) THEN 1 ELSE 0)
       + CorrectCount(answers, Tail(userAnswers))

\* userAnswers.map(ans => decorate(ans, isCorrect))
decoratedAnswers(answers, userAnswers) ==
  [i \in 1..Len(userAnswers) |->
     decorate(userAnswers[i], isCorrect(answers, userAnswers[i]))]

\* the same chain with the "Correct" test placed first
GradeStatus_CorrectFirst(correctCount, nAccepted, nUser) ==
  IF correctCount = nAccepted /\ nUser = nAccepted THEN "Correct"
  ELSE IF correctCount = 0 THEN "Incorrect"
  ELSE "Partially Correct"

\* the if / else-if / else chain that sets `status`
GradeStatus(correctCount, nAccepted, nUser) ==
  IF correctCount = 0 THEN "Incorrect"
  ELSE IF correctCount = nAccepted /\ nUser = nAccepted THEN "Correct"
  ELSE "Partially Correct"

(* ---------------------------- repository -------------------------------- *)
Ids(qs) == {qs[i].id : i \in 1..Len(qs)}

\* queries.find(q => q.id === id) falling back to the first question
FindById_First(qs, id) ==
  IF qs = <<>> THEN <<>> ELSE <<qs[1]>>

\* queries.find(q => q.id === id): <<>> for undefined, <<q>> for the first hit
FindById(qs, id) ==
  IF \E i \in 1..Len(qs) : qs[i].id = id
  THEN <<qs[CHOOSE i \in 1..Len(qs) :
              /\ qs[i].id = id
              /\ \A j \in 1..(i - 1) : qs[j].id # id]>>
  ELSE <<>>

\* the value undefined
Undefined == <<>>

\* the value is a string, so .split and .toLowerCase can be called on it
IsString(value) == Len(value) = 1

\* the filter callback without the answers test
MatchesSearch_NoAnswers(q, s) ==
  \/ includes(toLowerCase(q.question[1]), s)
  \/ includes(toLowerCase(q.genre[1]), s)

\* the callback of queries.filter in GET /questions; s is already lower-cased
MatchesSearch(q, s) ==
  \/ includes(toLowerCase(q.question[1]), s)
  \/ includes(toLowerCase(q.genre[1]), s)
  \/ \E i \in 1..Len(q.answers) : includes(toLowerCase(q.answers[i]), s)

RECURSIVE FilterQueries(_, _)
\* queries.filter(q => ...)
FilterQueries(qs, s) ==
  IF qs = <<>> THEN <<>>
  ELSE (IF MatchesSearch(Head(qs), s) THEN <<Head(qs)>> ELSE <<>>)
       \o FilterQueries(Tail(qs), s)

\* the filter callback raises TypeError: q.question or q.genre is undefined
\* or an array, so .toLowerCase is not a function
FilterThrows(qs) ==
  \E i \in 1..Len(qs) : ~IsString(qs[i].question) \/ ~IsString(qs[i].genre)

\* `if (search)` is taken: a non-empty string or an array
SearchTruthy(search) ==
  \/ Len(search) >= 2
  \/ Len(search) = 1 /\ search[1] # <<>>

\* GET /questions raises: search.toLowerCase on an array, or the callback
SearchThrows(qs, search) ==
  SearchTruthy(search) /\ (Len(search) >= 2 \/ FilterThrows(qs))

\* `filtered` in GET /questions when nothing is raised
Filtered(qs, search) ==
  IF ~SearchTruthy(search) THEN qs
  ELSE FilterQueries(qs, toLowerCase(search[1]))

(* ------------------------ question-bank.json --------------------------- *)
T_2plus2 == <<50, 43, 50, 63>>
T_math == <<109, 97, 116, 104>>
T_4 == <<52>>
T_four == <<102, 111, 117, 114>>
T_five == <<102, 105, 118, 101>>

\* entries of the seed file; an `id` in the file is not used by the loader
\* {"id": 7, "question": "2+2?", "genre": "math", "answers": ["4", "four"]}
Item1 == [isNull |-> FALSE, id |-> 7, question |-> <<T_2plus2>>, genre |-> <<T_math>>,
          answers |-> <<T_4, T_four>>]
\* {"id": 7, "question": "Aa", "genre": "b", "answers": ["a", "b"]}
Item2 == [isNull |-> FALSE, id |-> 7, question |-> <<<<65, 97>>>>, genre |-> <<<<98>>>>,
          answers |-> <<<<97>>, <<98>>>>]
\* the entry null
NullItem == [isNull |-> TRUE, id |-> 0, question |-> <<>>, genre |-> <<>>,
             answers |-> <<>>]

SeedFile(readable, validJson, isArray, items) ==
  [readable |-> readable, validJson |-> validJson, isArray |-> isArray,
   items |-> items]

ValidSeeds ==
  { SeedFile(TRUE, TRUE, TRUE, <<>>),
    SeedFile(TRUE, TRUE, TRUE, <<Item1>>),
    SeedFile(TRUE, TRUE, TRUE, <<Item1, Item2>>) }

SeedFiles ==
  ValidSeeds \cup
  { SeedFile(FALSE, FALSE, FALSE, <<>>),          \* file missing
    SeedFile(TRUE, FALSE, FALSE, <<>>),           \* malformed JSON
    SeedFile(TRUE, TRUE, FALSE, <<>>),            \* JSON value without .map
    SeedFile(TRUE, TRUE, TRUE, <<Item1, NullItem>>) } \* item.question throws

\* the map callback keeping the identifier found in the file
SeedQuery_KeepId(item, calls) ==
  Query(item.id, item.question, item.genre, item.answers)

\* the callback of parsed.map: new Query(uuidv4(), item.question, ...)
SeedQuery(item, calls) ==
  Query(uuidv4(calls), item.question, item.genre, item.answers)

RECURSIVE MapSeed(_, _)
\* parsed.map(item => new Query(uuidv4(), item.question, ...)): threw when
\* a callback raises, and the number of uuidv4() calls made.  The arguments
\* are evaluated left to right, so uuidv4() has been called when
\* item.question raises on null.
MapSeed(items, calls) ==
  IF items = <<>> THEN [threw |-> FALSE, result |-> <<>>, calls |-> 0]
  ELSE IF Head(items).isNull THEN [threw |-> TRUE, result |-> <<>>, calls |-> 1]
  ELSE LET rest == MapSeed(Tail(items), calls + 1)
       IN  IF rest.threw
           THEN [threw |-> TRUE, result |-> <<>>, calls |-> rest.calls + 1]
           ELSE [threw |-> FALSE,
                 result |-> <<SeedQuery(Head(items), calls)>> \o rest.result,
                 calls |-> rest.calls + 1]

\* uuidv4() calls made by the try block
LoadCalls(file, calls) ==
  IF file.validJson /\ file.isArray THEN MapSeed(file.items, calls).calls ELSE 0

\* the try block raises: JSON.parse, parsed.map or a map callback
TryThrows(file) ==
  \/ ~file.validJson
  \/ ~file.isArray
  \/ MapSeed(file.items, 0).threw

(* ------------------------------- state ---------------------------------- *)
NoResp == [route |-> "none", kind |-> "none", text |-> "", req |-> [none |-> TRUE],
           data |-> [none |-> TRUE]]

Send(route, req, text) ==
  [route |-> route, kind |-> "send", text |-> text, req |-> req,
   data |-> [none |-> TRUE]]

Redirect(route, req, target) ==
  [route |-> route, kind |-> "redirect", text |-> target, req |-> req,
   data |-> [none |-> TRUE]]

\* the handler raised before any res.* call
Throw(route, req) ==
  [route |-> route, kind |-> "throw", text |-> "TypeError", req |-> req,
   data |-> [none |-> TRUE]]

Render(route, req, view, data) ==
  [route |-> route, kind |-> "render", text |-> view, req |-> req, data |-> data]

Init ==
  /\ seedFile \in SeedFiles
  /\ pc = "loading"
  /\ server = "null"
  /\ queries = <<>>
  /\ uuidCalls = 0
  /\ adds = 0
  /\ served = {}
  /\ resp = NoResp

(* ------------------------------ startup --------------------------------- *)
\* fs.readFile callback, err set: log and process.exit(1)
ReadFileError ==
  /\ pc = "loading"
  /\ ~seedFile.readable
  /\ pc' = "exited"
  /\ UNCHANGED <<seedFile, server, queries, uuidCalls, adds, served, resp>>

\* the catch branch followed by a listen call
LoadThrows_Listen ==
  /\ pc = "loading"
  /\ seedFile.readable
  /\ TryThrows(seedFile)
  /\ uuidCalls' = uuidCalls + LoadCalls(seedFile, uuidCalls)
  /\ pc' = "listening"
  /\ server' = "listening"
  /\ UNCHANGED <<seedFile, queries, adds, served, resp>>

\* fs.readFile callback, try block raises: catch logs and process.exit(1)
LoadThrows ==
  /\ pc = "loading"
  /\ seedFile.readable
  /\ TryThrows(seedFile)
  /\ uuidCalls' = uuidCalls + LoadCalls(seedFile, uuidCalls)
  /\ pc' = "exited"
  /\ UNCHANGED <<seedFile, server, queries, adds, served, resp>>

\* fs.readFile callback, try block completes: queries assigned, app.listen(3000)
LoadAndListen ==
  /\ pc = "loading"
  /\ seedFile.readable
  /\ ~TryThrows(seedFile)
  /\ queries' = MapSeed(seedFile.items, uuidCalls).result
  /\ uuidCalls' = uuidCalls + LoadCalls(seedFile, uuidCalls)
  /\ server' = "listening"
  /\ pc' = "listening"
  /\ UNCHANGED <<seedFile, adds, served, resp>>

\* app.listen(3000) has returned: the server accepts connections on the port
\* and hands each request to the routes of `app`
Serving == pc = "listening" /\ server = "listening"

\* process.exit(1) has not been called.  The routes are registered on the
\* exported `app` when the module is evaluated and none of the handlers
\* tests `server`, so a handler runs whenever a request is handed to `app`
\* in a running process.
Running == pc # "exited"

(* ------------------------------ routes ---------------------------------- *)
\* app.get("/")
GetRoot ==
  /\ Running
  /\ resp' = Redirect("GET /", [none |-> TRUE], "/quiz")
  /\ UNCHANGED <<seedFile, pc, server, queries, uuidCalls, adds, served>>

\* app.get("/quiz") with queries.length === 0
GetQuizEmpty ==
  /\ Running
  /\ Len(queries) = 0
  /\ resp' = Send("GET /quiz", [none |-> TRUE], "No questions available!")
  /\ UNCHANGED <<seedFile, pc, server, queries, uuidCalls, adds, served>>

\* app.get("/quiz"); randIndex is Math.floor(Math.random() * queries.length)
GetQuiz(randIndex) ==
  /\ Running
  /\ Len(queries) # 0
  /\ LET randomQuestion == queries[randIndex + 1]
     IN  /\ resp' = Render("GET /quiz", [none |-> TRUE], "quiz",
                      [question |-> randomQuestion.question,
                       id |-> randomQuestion.id,
                       answer |-> <<>>, correction |-> <<>>, status |-> ""])
         /\ served' = served \cup {randomQuestion.id}
  /\ UNCHANGED <<seedFile, pc, server, queries, uuidCalls, adds>>

\* app.post("/quiz"); answer is the `answer` field of the body
PostQuiz(id, answer) ==
  /\ Running
  /\ LET found == FindById(queries, id)
         req == [id |-> id, answer |-> answer]
     IN  IF found = <<>>
         THEN resp' = Send("POST /quiz", req, "Invalid question submitted.")
         ELSE IF ~IsString(answer)
         THEN resp' = Throw("POST /quiz", req)      \* answer.split on a non-string
         ELSE LET quizQuestion == found[1]
                  userAnswers == ParseAnswers(answer[1])
                  correctCount == CorrectCount(quizQuestion.answers, userAnswers)
                  decorated == decoratedAnswers(quizQuestion.answers, userAnswers)
                  status == GradeStatus(correctCount, Len(quizQuestion.answers),
                                        Len(userAnswers))
              IN  resp' = Render("POST /quiz", req, "quiz",
                            [question |-> quizQuestion.question,
                             id |-> quizQuestion.id,
                             answer |-> answer[1],
                             correction |-> join(decorated, <<44, 32>>),
                             status |-> status])
  /\ UNCHANGED <<seedFile, pc, server, queries, uuidCalls, adds, served>>

\* app.get("/questions"); search is the `search` query parameter
GetQuestions(search) ==
  /\ Running
  /\ IF SearchThrows(queries, search)
     THEN resp' = Throw("GET /questions", [search |-> search])
     ELSE resp' = Render("GET /questions", [search |-> search], "questions",
                    [queries |-> Filtered(queries, search),
                     search |-> IF SearchTruthy(search) THEN search[1] ELSE <<>>])
  /\ UNCHANGED <<seedFile, pc, server, queries, uuidCalls, adds, served>>

\* app.post("/questions") replacing the array by the new question alone
PostQuestions_Replace(question, genre, answers) ==
  /\ Running
  /\ adds' = adds + 1
  /\ LET req == [question |-> question, genre |-> genre, answers |-> answers]
     IN  IF ~IsString(answers)
         THEN /\ resp' = Throw("POST /questions", req)
              /\ UNCHANGED <<queries, uuidCalls>>
         ELSE /\ queries' = <<Query(uuidv4(uuidCalls), question, genre,
                                    ParseAnswers(answers[1]))>>
              /\ uuidCalls' = uuidCalls + 1
              /\ resp' = Redirect("POST /questions", req, "/questions")
  /\ UNCHANGED <<seedFile, pc, server, served>>

\* app.post("/questions"); the three arguments are the fields of the body
PostQuestions(question, genre, answers) ==
  /\ Running
  /\ adds' = adds + 1
  /\ LET req == [question |-> question, genre |-> genre, answers |-> answers]
     IN  IF ~IsString(answers)
         THEN /\ resp' = Throw("POST /questions", req)  \* answers.split on a non-string
              /\ UNCHANGED <<queries, uuidCalls>>
         ELSE LET ansArr == ParseAnswers(answers[1])
                  newQuery == Query(uuidv4(uuidCalls), question, genre, ansArr)
              IN  /\ queries' = Append(queries, newQuery)
                  /\ uuidCalls' = uuidCalls + 1
                  /\ resp' = Redirect("POST /questions", req, "/questions")
  /\ UNCHANGED <<seedFile, pc, server, served>>

(* ------------------------------ inputs ---------------------------------- *)
T_abc == <<97, 44, 32, 98, 32, 44, 44, 99>>              \* "a, b ,,c"
T_44 == <<52, 44, 52>>                                   \* "4,4"
T_4four == <<52, 44, 32, 102, 111, 117, 114>>            \* "4, four"
T_4fourFF == <<52, 44, 102, 111, 117, 114, 12>>          \* "4,four\f"
T_FOUR4 == <<70, 79, 85, 82, 44, 52>>                    \* "FOUR,4"
T_MATH == <<77, 65, 84, 72>>                             \* "MATH"

\* `answer` field of the quiz form: a text, and the field left out
QuizAnswers == { <<T_4four>>, <<>> }

\* `search` parameter: absent, a text, or given twice
Searches == { <<>>, <<T_MATH>>, <<T_math, T_math>> }

\* bodies of the add-question form: {question: "Q", genre: "G", answers:
\* "a, b ,,c"}; {question: "2+2?", genre: "math", answers: ""}; no question
\* field; no answers field; the question field given twice ("x" and "y")
Forms ==
  { [question |-> <<<<81>>>>, genre |-> <<<<71>>>>, answers |-> <<T_abc>>],
    [question |-> <<T_2plus2>>, genre |-> <<T_math>>, answers |-> <<<<>>>>],
    [question |-> <<>>, genre |-> <<<<103>>>>, answers |-> <<<<97>>>>],
    [question |-> <<<<110>>>>, genre |-> <<<<103>>>>, answers |-> <<>>],
    [question |-> <<<<120>>, <<121>>>>, genre |-> <<<<103>>>>,
     answers |-> <<<<97>>>>] }

\* "a", "," and " "
BaseChars == {97, 44, 32}

\* every text over BaseChars of length at most n
Texts(n) == UNION { [1..k -> BaseChars] : k \in 0..n }

\* texts for the comma and white-space handling of the two forms
ParseTexts ==
  Texts(MaxLen) \cup
  { T_abc, T_44, T_4four, T_4fourFF,
    <<97, 44, 98, 44, 97>>,                            \* "a,b,a"
    <<32, 97, 32, 44, 9, 98, 10>>,                     \* " a ,\tb\n"
    <<12>>, <<97, 12, 44, 98>>, <<97, 44, \h00A0>>,    \* FF; "a\f,b"; "a," NBSP
    <<\h2028, 97, 11, 44, \hFEFF>>,                    \* U+2028 "a" VT "," U+FEFF
    <<97, \h3000, 98>> }                               \* "a" U+3000 "b"

\* texts for grading and searching: repeats, letter case, letters outside
\* ASCII
GradeTexts ==
  Texts(MaxLen) \cup
  { T_44, T_4four, T_4fourFF, T_FOUR4, T_4, T_five, T_math, T_MATH,
    <<97, 44, 98>>, <<97, 44, 65>>, <<65>>, <<12>>,    \* "a,b" "a,A" "A" FF
    <<\h00C9>>, <<97, 44, \h00C9>>,                    \* U+00C9; "a," U+00C9
    <<\h0130>>, <<\h212A>>,                            \* U+0130; Kelvin sign
    <<\h0101>>, <<\h0434>>,                            \* U+0101; Cyrillic de
    <<\h03B1, \h03C2>>, <<\h03B1, \h03C3>>,            \* alpha + final / small sigma
    <<\hD801, \hDC00>>,                                \* Deseret capital long I
    <<\h0295, \h03C3>>, <<\h0295, \h03C2>>,            \* U+0295 + small / final sigma
    <<\h0101, 44, \h03B1, \h03C2, 44, \hD801, \hDC28, 44, \h00C9>> }
                                                       \* the four answers of ItemU

(* --------------------------- specifications ----------------------------- *)
DoGetQuiz == \E randIndex \in 0..(Len(queries) - 1) : GetQuiz(randIndex)

DoPostQuiz ==
  \E id \in 1..(uuidCalls + 1), answer \in QuizAnswers : PostQuiz(id, answer)

DoGetQuestions == \E search \in Searches : GetQuestions(search)

DoPostQuestions ==
  /\ adds < MaxAdds
  /\ \E f \in Forms : PostQuestions(f.question, f.genre, f.answers)

\* app.mjs as a module: the fs.readFile callback runs once, and a request is
\* handled whenever one is handed to `app`, by the server of app.listen or
\* by a module that imports `app` and dispatches on it
Next ==
  \/ ReadFileError
  \/ LoadThrows
  \/ LoadAndListen
  \/ GetRoot
  \/ GetQuizEmpty
  \/ DoGetQuiz
  \/ DoPostQuiz
  \/ DoGetQuestions
  \/ DoPostQuestions

Spec == Init /\ [][Next]_vars

\* app.mjs started as the program (`node app.mjs`): nothing imports the
\* module, so the server of app.listen(3000) is the only one that hands
\* requests to `app`, and it exists once the load has completed
NextServer ==
  \/ ReadFileError
  \/ LoadThrows
  \/ LoadAndListen
  \/ Serving /\ GetRoot
  \/ Serving /\ GetQuizEmpty
  \/ Serving /\ DoGetQuiz
  \/ Serving /\ DoPostQuiz
  \/ Serving /\ DoGetQuestions
  \/ Serving /\ DoPostQuestions

SpecServer == Init /\ [][NextServer]_vars

\* Accepted-answer lists a seed entry can carry: every list of at most
\* MaxAnswers strings of AnswerStrings (duplicates and the empty list included).
AnswerStrings == { <<97>>, <<65>> }                      \* "a" and "A"

AnswerLists == UNION { [1..k -> AnswerStrings] : k \in 0..MaxAnswers }

\* A seed entry with letters outside ASCII: question U+0414 (Cyrillic De),
\* answers U+0100, U+0391 U+03A3 (Alpha Sigma), U+10400 (Deseret Long I),
\* U+00E9 and U+0295 U+03A3 (the uncased pharyngeal fricative, Sigma)
ItemU ==
  [isNull |-> FALSE, id |-> 7, question |-> <<<<\h0414>>>>, genre |-> <<<<103>>>>,
   answers |-> << <<\h0100>>, <<\h0391, \h03A3>>, <<\hD801, \hDC00>>,
                  <<\h00E9>>, <<\h0295, \h03A3>> >>]

ItemV(answers) ==
  [isNull |-> FALSE, id |-> 7, question |-> <<<<65, 97>>>>, genre |-> <<<<98>>>>,
   answers |-> answers]

\* The server after a successful load of a three-entry bank, fed every text
\* of GradeTexts on the quiz form, for each stored question, and on the
\* search box.
InitText ==
  /\ seedFile \in { SeedFile(TRUE, TRUE, TRUE, <<ItemV(a), Item1, ItemU>>) : a \in AnswerLists }
  /\ pc = "listening"
  /\ server = "listening"
  /\ queries = MapSeed(seedFile.items, 0).result
  /\ uuidCalls = Len(seedFile.items)
  /\ adds = 0
  /\ served = {}
  /\ resp = NoResp

TextPostQuiz ==
  \E id \in Ids(queries), answer \in {<<>>} \cup { <<t>> : t \in GradeTexts } :
     PostQuiz(id, answer)

TextGetQuestions ==
  \E search \in {<<>>, <<T_math, T_math>>} \cup { <<t>> : t \in GradeTexts } :
     GetQuestions(search)

NextText ==
  \/ TextPostQuiz
  \/ TextGetQuestions

SpecText == InitText /\ [][NextText]_vars

\* The server after a successful load of the one-entry bank, fed every text
\* of ParseTexts on the add-question form and the quiz form.
InitParse ==
  /\ seedFile = SeedFile(TRUE, TRUE, TRUE, <<Item1>>)
  /\ pc = "listening"
  /\ server = "listening"
  /\ queries = MapSeed(seedFile.items, 0).result
  /\ uuidCalls = Len(seedFile.items)
  /\ adds = 0
  /\ served = {}
  /\ resp = NoResp

ParsePostQuestions ==
  /\ adds < MaxTextAdds
  /\ \E answers \in {<<>>} \cup { <<t>> : t \in ParseTexts } :
        PostQuestions(<<<<81>>>>, <<<<71>>>>, answers)

ParsePostQuiz ==
  \E answer \in {<<>>} \cup { <<t>> : t \in ParseTexts } :
     PostQuiz(queries[1].id, answer)

NextParse ==
  \/ ParsePostQuestions
  \/ ParsePostQuiz

SpecParse == InitParse /\ [][NextParse]_vars

TypeOK ==
  /\ pc \in {"loading", "listening", "exited"}
  /\ server \in {"null", "listening"}
  /\ uuidCalls \in Nat
  /\ adds \in Nat
  /\ resp.kind \in {"none", "send", "redirect", "render", "throw"}

(* ------------------- vocabulary of the properties ----------------------- *)
\* x and y are equal case-insensitively
FoldEq(x, y) == toLowerCase(x) = toLowerCase(y)

\* needle occurs in hay at some offset
OccursIn(needle, hay) ==
  \E off \in 0..(Len(hay) - Len(needle)) :
     \A k \in 1..Len(needle) : hay[off + k] = needle[k]

\* the elements of seq at the indices K, in increasing index order
PickIndices(seq, K) ==
  [k \in 1..Cardinality(K) |->
     seq[CHOOSE i \in K : Cardinality({j \in K : j < i}) = k - 1]]

\* The comma-separated pieces of t, trimmed, empty ones dropped, left to right.
\* A piece lies strictly between two consecutive cuts (a comma or a text end).
Pieces(t) ==
  LET n == Len(t)
      Cuts == {0, n + 1} \cup {i \in 1..n : t[i] = 44}
      EndOf(lo) == CHOOSE hi \in Cuts : hi > lo /\ \A c \in Cuts : c > lo => c >= hi
      Solid(lo) == {i \in (lo + 1)..(EndOf(lo) - 1) : ~IsSpace(t[i])}
      Kept == {lo \in Cuts \ {n + 1} : Solid(lo) # {}}
      First(lo) == CHOOSE i \in Solid(lo) : \A j \in Solid(lo) : i <= j
      Last(lo) == CHOOSE i \in Solid(lo) : \A j \in Solid(lo) : i >= j
      KeptSeq == PickIndices([i \in 0..n |-> i], Kept)
  IN  [k \in 1..Cardinality(Kept) |-> SubSeq(t, First(KeptSeq[k]), Last(KeptSeq[k]))]

\* the last response is a graded quiz page
QuizGraded == resp.route = "POST /quiz" /\ resp.kind = "render"

\* accepted answers of the graded question, and the parsed submission
GradedAccepted ==
  (CHOOSE q \in {queries[i] : i \in 1..Len(queries)} : q.id = resp.data.id).answers
GradedSubmitted == Pieces(resp.data.answer)

\* some submitted answer equals some accepted answer
Overlap(A, S) == \E i \in 1..Len(S), j \in 1..Len(A) : FoldEq(S[i], A[j])

\* the Correct condition of the grader contract
CorrectCondition(A, S) ==
  /\ \A i \in 1..Len(S) : \E j \in 1..Len(A) : FoldEq(S[i], A[j])
  /\ \A j \in 1..Len(A) : \E i \in 1..Len(S) : FoldEq(S[i], A[j])
  /\ \A i, k \in 1..Len(S) : i # k => ~FoldEq(S[i], S[k])
  /\ Len(S) = Len(A)

\* A is a non-empty set of accepted answers: no two equal case-insensitively
AcceptedIsSet(A) ==
  /\ A # <<>>
  /\ \A i, k \in 1..Len(A) : i # k => ~FoldEq(A[i], A[k])

(* ------------------------------ C1, C2, C3 ------------------------------ *)
\* C1: for a question whose accepted answers form a non-empty set, POST /quiz
\* reports "Correct" if and only if the parsed submission satisfies the Correct
\* condition (mutual matching, pairwise distinct submissions, equal counts).
C1_CorrectIffCondition ==
  (QuizGraded /\ AcceptedIsSet(GradedAccepted))
    => (resp.data.status = "Correct"
          <=> CorrectCondition(GradedAccepted, GradedSubmitted))

\* C2: when some submitted answer matches an accepted one but the Correct
\* condition fails, POST /quiz reports "Partially Correct".
C2_PartialWhenOverlapNotCorrect ==
  (/\ QuizGraded
   /\ AcceptedIsSet(GradedAccepted)
   /\ Overlap(GradedAccepted, GradedSubmitted)
   /\ ~CorrectCondition(GradedAccepted, GradedSubmitted))
    => resp.data.status = "Partially Correct"

\* C3: when no submitted answer matches any accepted answer, POST /quiz
\* reports "Incorrect"; an empty submission also has empty decorated feedback.
C3_IncorrectWhenDisjoint ==
  QuizGraded =>
    /\ ~Overlap(GradedAccepted, GradedSubmitted) => resp.data.status = "Incorrect"
    /\ GradedSubmitted = <<>> =>
         resp.data.status = "Incorrect" /\ resp.data.correction = <<>>

\* a blank-and-comma submission graded Incorrect with no feedback
C3_Witness ==
  /\ QuizGraded
  /\ resp.data.answer = <<32, 44>>
  /\ GradedAccepted # <<>>
  /\ resp.data.status = "Incorrect"
  /\ resp.data.correction = <<>>

(* --------------------------------- C7 ----------------------------------- *)
\* the question is selected by the search text
Selected(q, text) ==
  LET s == toLowerCase(text)
  IN  \/ OccursIn(s, toLowerCase(q.question[1]))
      \/ OccursIn(s, toLowerCase(q.genre[1]))
      \/ \E i \in 1..Len(q.answers) : OccursIn(s, toLowerCase(q.answers[i]))

\* C7: GET /questions with a search text, or without the parameter, lists in
\* repository order exactly the questions selected by a non-empty text and
\* every question otherwise, and filtering the listed questions again changes
\* nothing.
C7_SearchFilter ==
  (resp.route = "GET /questions" /\ Len(resp.req.search) <= 1) =>
    /\ resp.kind = "render"
    /\ LET search == resp.req.search
           listed == resp.data.queries
       IN  /\ IF search = <<>> \/ search[1] = <<>>
              THEN listed = queries
              ELSE listed = PickIndices(queries,
                              {i \in 1..Len(queries) : Selected(queries[i], search[1])})
           /\ Filtered(listed, search) = listed

(* --------------------------------- C9 ----------------------------------- *)
\* C9: POST /questions given an `answers` text stores exactly its trimmed
\* non-empty comma-separated pieces, in order, and POST /quiz grades exactly
\* the pieces of its `answer` text.
C9_AnswersParsed ==
  /\ (resp.route = "POST /questions" /\ IsString(resp.req.answers)) =>
       /\ resp.kind = "redirect"
       /\ queries[Len(queries)].answers = Pieces(resp.req.answers[1])
  /\ QuizGraded =>
       resp.data.correction =
         join(decoratedAnswers(GradedAccepted, GradedSubmitted), <<44, 32>>)

\* "a, b ,,c" stored as ["a","b","c"]
C9_Witness ==
  /\ resp.route = "POST /questions"
  /\ resp.req.answers = <<T_abc>>
  /\ queries[Len(queries)].answers = << <<97>>, <<98>>, <<99>> >>

(* --------------------------------- C4 ----------------------------------- *)
\* C4: while the server listens, the repository holds exactly N + M
\* questions, N the number of seed entries and M the number of POST
\* /questions requests handled since the load, and their identifiers are
\* pairwise distinct.
C4_UniqueIds ==
  Serving =>
    /\ Len(queries) = Len(seedFile.items) + adds
    /\ \A i, j \in 1..Len(queries) : i # j => queries[i].id # queries[j].id

(* --------------------------------- C5 ----------------------------------- *)
\* the file can be read, parsed and mapped entry by entry
SeedLoads(file) ==
  /\ file.readable
  /\ file.validJson
  /\ file.isArray
  /\ \A i \in 1..Len(file.items) : ~file.items[i].isNull

\* C5: the port is bound only when the seed file loaded and every seed entry
\* is in the repository; a process that exited never bound the port and
\* answered no request; and a request is answered only by a listening server.
C5_ListenAfterLoad ==
  /\ server = "listening" =>
       /\ SeedLoads(seedFile)
       /\ Len(queries) >= Len(seedFile.items)
       /\ \A i \in 1..Len(seedFile.items) :
            /\ queries[i].question = seedFile.items[i].question
            /\ queries[i].genre = seedFile.items[i].genre
            /\ queries[i].answers = seedFile.items[i].answers
  /\ pc = "exited" => server = "null" /\ resp = NoResp
  /\ resp # NoResp => server = "listening"

\* a request answered by the server that loaded a seed file of two entries
C5_Witness ==
  /\ server = "listening"
  /\ Len(seedFile.items) = 2
  /\ resp.route = "GET /quiz"
  /\ resp.kind = "render"

(* --------------------------------- C6 ----------------------------------- *)
\* C6: every request the listening server handles either is POST /questions,
\* which appends exactly one question and keeps every stored question in
\* place, or leaves the repository as it is.
C6_AppendOnly ==
  [][ Serving =>
        IF adds' = adds + 1
        THEN /\ Len(queries') = Len(queries) + 1
             /\ SubSeq(queries', 1, Len(queries)) = queries
        ELSE queries' = queries ]_vars

(* --------------------------------- C8 ----------------------------------- *)
\* C8: POST /quiz answers "Invalid question submitted." exactly when no stored
\* question has the submitted id, and otherwise renders the question with
\* that id.
C8_InvalidIffUnknown ==
  resp.route = "POST /quiz" =>
    /\ (resp.kind = "send" /\ resp.text = "Invalid question submitted.")
         <=> resp.req.id \notin Ids(queries)
    /\ resp.req.id \in Ids(queries) =>
         /\ resp.kind = "render"
         /\ resp.data.id = resp.req.id
         /\ \E i \in 1..Len(queries) :
              /\ queries[i].id = resp.req.id
              /\ queries[i].question = resp.data.question

(* --------------------------------- C10 ---------------------------------- *)
\* C10: every id GET /quiz has served belongs to a stored question, GET /quiz
\* serves only ids of stored questions, and POST /quiz with a served id is
\* never answered "Invalid question submitted.".
C10_ServedIdStaysValid ==
  /\ served \subseteq Ids(queries)
  /\ (resp.route = "GET /quiz" /\ resp.kind = "render") =>
       resp.data.id \in Ids(queries)
  /\ (resp.route = "POST /quiz" /\ resp.req.id \in served) =>
       ~(resp.kind = "send" /\ resp.text = "Invalid question submitted.")

\* a served id submitted to POST /quiz after a question was added
C10_Witness ==
  /\ resp.route = "POST /quiz"
  /\ resp.req.id \in served
  /\ resp.kind = "render"
  /\ Len(queries) > Len(seedFile.items)

====
